---- MODULE Spec2Model ----
(***************************************************************************)
(* Model of src/src/polynomial.rs: the Polynomial type (big-endian        *)
(* coefficient vector), its constructor, the two multiplications, the      *)
(* derivative, degree and the additive operators.                          *)
(*                                                                         *)
(* crate::numbers::BigInt and crate::ntt (Constants, working_modulus,      *)
(* forward, inverse) are not part of the sources at hand; they are         *)
(* modelled from the specification document: BigInt as an exact integer,   *)
(* the remainder as the canonical residue in 0..N-1, forward as the        *)
(* evaluation at the powers of the root g and inverse as its inverse.      *)
(*                                                                         *)
(* Sequences are 1-based here and 0-based in the source: the source index  *)
(* i is the TLA+ index i+1.                                                *)
(***************************************************************************)
EXTENDS Integers, Sequences, FiniteSets, TLC

\* ---------------------------------------------------------------- bounds
\* Longest receiver the caller builds; the two operands of a call hold at
\* most MaxLen + 1 coefficients together.
MaxLen == 3
\* Largest coefficient drawn for the operands (the smallest is -1).
MaxCoef == 3
\* Number of workers of the parallel pointwise step.
MaxWorkers == 2
\* Width of the modelled usize (the lengths handled stay far below it).
UsizeBits == 8

Coefs == (0 - 1)..MaxCoef

\* --------------------------------------------------------------- helpers
Max(x, y) == IF x >= y THEN x ELSE y
Abs(x) == IF x < 0 THEN 0 - x ELSE x
Zeros(k) == [i \in 1..k |-> 0]
Rev(s) == [i \in 1..Len(s) |-> s[Len(s) + 1 - i]]
RECURSIVE SumRange(_, _, _)
\* f[lo] + ... + f[hi], summed by halves
SumRange(f, lo, hi) ==
    IF lo > hi THEN 0
    ELSE IF lo = hi THEN f[lo]
    ELSE SumRange(f, lo, (lo + hi) \div 2) + SumRange(f, (lo + hi) \div 2 + 1, hi)
SumTo(f, k) == SumRange(f, 1, k)

\* An operation either returns a value or panics (unwrap on None, index or
\* slice out of range, arithmetic overflow in a checked build).
Ok(v) == [ok |-> TRUE, val |-> v]
Panic == [ok |-> FALSE, val |-> <<>>]

\* usize: next_power_of_two and the bitwise and of new().
RECURSIVE Pow2From(_, _)
Pow2From(p, n) == IF p >= n THEN p ELSE Pow2From(2 * p, n)
next_power_of_two(n) == Pow2From(1, n)
UsizeMod == 2 ^ UsizeBits
RECURSIVE BitAnd(_, _)
BitAnd(x, y) ==
    IF x = 0 \/ y = 0 THEN 0
    ELSE (x % 2) * (y % 2) + 2 * BitAnd(x \div 2, y \div 2)

\* coef.iter().position(|&x| x != 0): 0-based index of the first nonzero
\* coefficient, -1 for None.
position_nonzero(coef) ==
    IF \A i \in 1..Len(coef) : coef[i] = 0 THEN 0 - 1
    ELSE (CHOOSE i \in 1..Len(coef) :
              coef[i] # 0 /\ \A j \in 1..(i - 1) : coef[j] = 0) - 1

len(coef) == Len(coef)

\* ------------------------------------------------------- Polynomial::new
\* wrapping = TRUE is a build without overflow checks (n - 1 wraps for
\* n = 0), FALSE a build with them (n - 1 panics for n = 0).
new(coef, wrapping) ==
    LET n == Len(coef) IN
    IF n = 0 /\ ~wrapping THEN Panic
    ELSE IF ~(BitAnd(n, (n - 1) % UsizeMod) = 0)
         THEN Ok(Zeros(next_power_of_two(n) - n) \o coef)
         ELSE Ok(coef)

\* ---------------------------------------------------- Polynomial::degree
degree(coef) ==
    LET start == position_nonzero(coef) IN
    IF start < 0 THEN Panic ELSE Ok(len(coef) - start - 1)

\* ------------------------------------------------- Polynomial::mul_brute
\* for j in 0..b { out[i + j] += self.coef[i] * rhs.coef[j] }: every j adds
\* to its own cell i + j, so the row is one update of the cells i .. i + b - 1
mul_brute_row(out, self, rhs, i) ==
    [e1 \in 1..Len(out) |->
        IF e1 - 1 - i >= 0 /\ e1 - 1 - i < len(rhs)
        THEN out[e1] + self[i + 1] * rhs[e1 - i]
        ELSE out[e1]]

RECURSIVE mul_brute_loop(_, _, _, _)
\* for i in 0..a { ... }, from i on
mul_brute_loop(out, self, rhs, i) ==
    IF i >= len(self) THEN out
    ELSE mul_brute_loop(mul_brute_row(out, self, rhs, i), self, rhs, i + 1)

mul_brute(self, rhs) ==
    mul_brute_loop(Zeros(len(self) + len(rhs)), self, rhs, 0)

\* ------------------------------------------- crate::ntt (from the document)
RECURSIVE PowMod(_, _, _)
\* x^e mod N by repeated squaring
PowMod(x, e, N) ==
    IF e = 0 THEN 1 % N
    ELSE IF e % 2 = 0 THEN PowMod((x * x) % N, e \div 2, N)
    ELSE (x * PowMod((x * x) % N, e \div 2, N)) % N

IsPrime(N) == N >= 2 /\ \A d \in 2..(N - 1) : N % d # 0

\* g has order exactly n modulo N: g^n = 1 and g^d # 1 for every smaller d.
HasOrder(g, n, N) ==
    PowMod(g, n, N) = 1 % N /\ \A d \in 1..(n - 1) : PowMod(g, d, N) # 1 % N

\* the first prime k*n + 1 above the bound M, for k = 1, 2, ... (one exists
\* with k <= M + n for the lengths and bounds handled here)
modulus_search(n, M) ==
    LET fits(k) == IsPrime(k * n + 1) /\ k * n + 1 > M
        k0 == CHOOSE k \in 1..(M + n) :
                  fits(k) /\ \A j \in 1..(k - 1) : ~fits(j)
    IN k0 * n + 1

\* the least element of order exactly n
root_search(n, N) ==
    CHOOSE x \in 1..(N - 1) :
        HasOrder(x, n, N) /\ \A y \in 1..(x - 1) : ~HasOrder(y, n, N)

working_modulus(n, M) ==
    LET N == modulus_search(n, Max(M, 0))
        g == root_search(n, N)
    IN [N |-> N, n |-> n, g |-> g,
        g_inv |-> PowMod(g, n - 1, N),
        n_inv |-> CHOOSE x \in 1..(N - 1) : (x * n) % N = 1]

\* the transform with root w: out[k] = sum_j v[j] * w^(j*k) mod N, 0-based
transform(v, w, N) ==
    LET n == Len(v) IN
    [k1 \in 1..n |->
        SumTo([j1 \in 1..n |->
                  (v[j1] * PowMod(w, ((j1 - 1) * (k1 - 1)) % n, N)) % N], n) % N]

forward(v, c) == transform(v, c.g, c.N)

inverse(v, c) ==
    LET t == transform(v, c.g_inv, c.N) IN
    [i \in 1..Len(v) |-> (t[i] * c.n_inv) % c.N]

\* BigInt::rem by the positive modulus: the canonical residue in 0..N-1
rem(x, N) == x % N

\* ------------------------------------------------------- Polynomial::mul
\* the padded operand: vec![ZERO; n - len] chained with the coefficients
padded(coef, n) == Zeros(n - len(coef)) \o coef

\* variant: every task multiplies by the first cell of b_forward
pointwise_cell_first_b(a_fwd, b_fwd, i, N) == rem(a_fwd[i + 1] * b_fwd[1], N)

\* one cell of the pointwise step: *x = (a_forward[i] * b_forward[i]).rem(c.N)
pointwise_cell(a_fwd, b_fwd, i, N) == rem(a_fwd[i + 1] * b_fwd[i + 1], N)

\* lines 76-81: the inverse transform, the search for the first nonzero
\* coefficient and the slice of v1_deg + v2_deg + 1 coefficients
mul_finish(prod, c, v1_deg, v2_deg) ==
    LET coef == inverse(prod, c)
        start == position_nonzero(coef)
    IN IF start < 0 THEN Panic                              \* unwrap on None
       ELSE IF start + v1_deg + v2_deg >= Len(coef) THEN Panic \* slice range
       ELSE Ok(SubSeq(coef, start + 1, start + v1_deg + v2_deg + 1))

mul(self, rhs, c) ==
    LET d1 == degree(self)
        d2 == degree(rhs)
    IN IF ~d1.ok \/ ~d2.ok THEN Panic
       ELSE LET n == next_power_of_two(len(self) + len(rhs))
                a_fwd == forward(padded(self, n), c)
                b_fwd == forward(padded(rhs, n), c)
                prod == [i1 \in 1..n |-> pointwise_cell(a_fwd, b_fwd, i1 - 1, c.N)]
            IN mul_finish(prod, c, d1.val, d2.val)

\* ------------------------------------------------------ Polynomial::diff
RECURSIVE diff_loop_by_index(_, _)
\* variant: the factor is the index n instead of the degree N - n
diff_loop_by_index(coef, n) ==
    IF n < 1 THEN coef
    ELSE diff_loop_by_index([coef EXCEPT ![n + 1] = coef[n] * n], n - 1)

RECURSIVE diff_loop(_, _)
\* for n in (1..N).rev() { coef[n] = coef[n - 1] * (N - n) }, from n down
diff_loop(coef, n) ==
    IF n < 1 THEN coef
    ELSE diff_loop([coef EXCEPT ![n + 1] = coef[n] * (Len(coef) - n)], n - 1)

\* variant: a failed search for the first nonzero coefficient starts at 0
diff_start_or_zero(self) ==
    LET N == len(self) IN
    IF N = 0 THEN Panic
    ELSE LET shifted == [diff_loop(self, N - 1) EXCEPT ![1] = 0]
             start == Max(position_nonzero(shifted), 0)
         IN Ok(SubSeq(shifted, start + 1, N))

diff(self) ==
    LET N == len(self) IN
    IF N = 0 THEN Panic                    \* self.coef[0] on an empty vector
    ELSE LET shifted == [diff_loop(self, N - 1) EXCEPT ![1] = 0]
             start == position_nonzero(shifted)
         IN IF start < 0 THEN Panic        \* unwrap on None
            ELSE Ok(SubSeq(shifted, start + 1, N))

\* ---------------------------------------------------------- Add, Neg, Sub
\* zip_longest of the two reversed coefficient lists, mapped to the sums.
zip_longest_sum(ra, rb) ==
    [i \in 1..Max(Len(ra), Len(rb)) |->
        IF i <= Len(ra) /\ i <= Len(rb) THEN ra[i] + rb[i]
        ELSE IF i <= Len(ra) THEN ra[i] ELSE rb[i]]

\* variant: the operands are zipped from the high-degree end
add_left_aligned(self, rhs) == zip_longest_sum(self, rhs)

add(self, rhs) == Rev(zip_longest_sum(Rev(self), Rev(rhs)))

neg(self) == [i \in 1..Len(self) |-> 0 - self[i]]

sub(self, rhs) == add(self, neg(rhs))

\* ----------------------------------------------------------------- state
VARIABLES
    pc,          \* "idle" (the caller builds the operands), "pointwise"
                 \* (inside mul's parallel step) or "done" (the call returned)
    op,          \* the operation that was called
    self,        \* coefficients of the receiver
    rhs,         \* coefficients of the second operand (<<>> when there is none)
    c,           \* the Constants handed to mul
    outcome,     \* "none", "ok" or "panic"
    out,         \* coefficients of the returned Polynomial
    deg_out,     \* the usize returned by degree()
    v_deg,       \* <<v1_deg, v2_deg>> of the running mul
    a_forward,   \* forward(v1, c) of the running mul
    b_forward,   \* forward(v2, c) of the running mul
    mul_cells,   \* the vector `mul` the pointwise step fills
    writes,      \* per cell of `mul`: how many times it was written
    writer       \* per cell of `mul`: the worker that wrote it (0: none)

vars == <<pc, op, self, rhs, c, outcome, out, deg_out, v_deg,
          a_forward, b_forward, mul_cells, writes, writer>>

parVars == <<v_deg, a_forward, b_forward, mul_cells, writes, writer>>

NoConstants == [N |-> 0, n |-> 0, g |-> 0, g_inv |-> 0, n_inv |-> 0]

Init ==
    /\ pc = "idle"
    /\ op = "none"
    /\ self = <<>>
    /\ rhs = <<>>
    /\ c = NoConstants
    /\ outcome = "none"
    /\ out = <<>>
    /\ deg_out = 0
    /\ v_deg = <<0, 0>>
    /\ a_forward = <<>>
    /\ b_forward = <<>>
    /\ mul_cells = <<>>
    /\ writes = <<>>
    /\ writer = <<>>

\* ---------------------------------------------------------------- inputs
\* the operands of tests::add, tests::mul and tests::diff
TestAddSelf == new(<<1, 2, 3, 4>>, TRUE).val
TestAddRhs == new(<<1, 2>>, TRUE).val
TestMulSelf == new(<<1, 2, 3>>, TRUE).val
TestMulRhs == new(<<1, 2, 3, 4, 5, 6, 7, 8, 9>>, TRUE).val
TestDiffSelf == new(<<3, 2, 1>>, TRUE).val
TestOperands ==
    {<<TestAddSelf, TestAddRhs>>, <<TestMulSelf, TestMulRhs>>,
     <<TestDiffSelf, <<>> >>}

MaxOf(s) == CHOOSE x \in {s[i] : i \in 1..Len(s)} : \A i \in 1..Len(s) : s[i] <= x
MaxAbsOf(s) == IF Len(s) = 0 THEN 0 ELSE MaxOf([i \in 1..Len(s) |-> Abs(s[i])])

\* the bound M of tests::mul: (max(max a, max b) << 1) * N + 1
test_bound(a, b, n) == (Max(MaxOf(a), MaxOf(b)) * 2) * n + 1

\* the bound the contract of mul asks for: N > (max |coefficient|)^2 * n
contract_bound(a, b, n) ==
    Max(MaxAbsOf(a), MaxAbsOf(b)) * Max(MaxAbsOf(a), MaxAbsOf(b)) * n

\* the bounds M a caller derives the Constants of mul(a, b, _) from: the
\* bound of tests::mul for its operands, else no bound at all (the smallest
\* modulus) or the bound of the contract
CallerBounds(a, b, n) ==
    IF a = TestMulSelf /\ b = TestMulRhs THEN {test_bound(a, b, n)}
    ELSE {0, contract_bound(a, b, n)}

\* ------------------------------------------------- building the operands
\* The caller builds the coefficient vectors (coef is a public field), one
\* coefficient at a time: first self, then rhs.
PushSelf ==
    /\ pc = "idle"
    /\ rhs = <<>>
    /\ Len(self) < MaxLen
    /\ \E x \in Coefs : self' = Append(self, x)
    /\ UNCHANGED <<pc, op, rhs, c, outcome, out, deg_out>>
    /\ UNCHANGED parVars

PushRhs ==
    /\ pc = "idle"
    /\ Len(self) + Len(rhs) < MaxLen + 1
    /\ \E x \in Coefs : rhs' = Append(rhs, x)
    /\ UNCHANGED <<pc, op, self, c, outcome, out, deg_out>>
    /\ UNCHANGED parVars

\* ... or passes a list through the constructor, as the tests do
Construct ==
    /\ pc = "idle"
    /\ rhs = <<>>
    /\ Len(self) > 0
    /\ self' = new(self, TRUE).val
    /\ UNCHANGED <<pc, op, rhs, c, outcome, out, deg_out>>
    /\ UNCHANGED parVars

LoadTest ==
    /\ pc = "idle"
    /\ self = <<>>
    /\ rhs = <<>>
    /\ \E t \in TestOperands : self' = t[1] /\ rhs' = t[2]
    /\ UNCHANGED <<pc, op, c, outcome, out, deg_out>>
    /\ UNCHANGED parVars

\* ------------------------------------------------------------- the calls
\* the call `name` with the Constants k returned res
Returned(name, k, res) ==
    /\ pc' = "done"
    /\ op' = name
    /\ c' = k
    /\ outcome' = IF res.ok THEN "ok" ELSE "panic"
    /\ out' = res.val
    /\ UNCHANGED <<self, rhs, deg_out>>
    /\ UNCHANGED parVars

DoNew ==
    /\ pc = "idle"
    /\ rhs = <<>>
    /\ \E wrapping \in BOOLEAN :
           Returned("new", NoConstants, new(self, wrapping))

DoDegree ==
    /\ pc = "idle"
    /\ rhs = <<>>
    /\ pc' = "done"
    /\ op' = "degree"
    /\ outcome' = IF degree(self).ok THEN "ok" ELSE "panic"
    /\ deg_out' = IF degree(self).ok THEN degree(self).val ELSE 0
    /\ UNCHANGED <<self, rhs, c, out>>
    /\ UNCHANGED parVars

DoDiff ==
    /\ pc = "idle"
    /\ rhs = <<>>
    /\ Returned("diff", NoConstants, diff(self))

DoNeg ==
    /\ pc = "idle"
    /\ rhs = <<>>
    /\ Returned("neg", NoConstants, Ok(neg(self)))

DoAdd ==
    /\ pc = "idle"
    /\ Returned("add", NoConstants, Ok(add(self, rhs)))

DoSub ==
    /\ pc = "idle"
    /\ Returned("sub", NoConstants, Ok(sub(self, rhs)))

DoMulBrute ==
    /\ pc = "idle"
    /\ Returned("mul_brute", NoConstants, Ok(mul_brute(self, rhs)))

DoMul ==
    /\ pc = "idle"
    /\ Len(self) + Len(rhs) > 0
    /\ \E M \in CallerBounds(self, rhs,
                             next_power_of_two(len(self) + len(rhs))) :
           LET k == working_modulus(
                        next_power_of_two(len(self) + len(rhs)), M)
           IN Returned("mul", k, mul(self, rhs, k))

Next ==
    \/ PushSelf
    \/ PushRhs
    \/ Construct
    \/ LoadTest
    \/ DoNew
    \/ DoDegree
    \/ DoDiff
    \/ DoNeg
    \/ DoAdd
    \/ DoSub
    \/ DoMulBrute
    \/ DoMul

Spec == Init /\ [][Next]_vars

\* ------------------------------------------ mul, its parallel step unfolded
\* Polynomial::mul with the rayon for_each unfolded into one step per cell:
\* par_iter_mut hands every cell of `mul` to exactly one task, the tasks run
\* in any order on any worker, and for_each returns when all have run.
ParCoefs == 0..(MaxCoef - 1)

InitPar ==
    /\ pc = "idle"
    /\ op = "none"
    /\ \E la \in 1..(MaxLen - 1) : \E lb \in 1..(MaxLen - la) :
           \E p \in [1..la -> ParCoefs] : \E q \in [1..lb -> ParCoefs] :
               self = p /\ rhs = q
    /\ c = NoConstants
    /\ outcome = "none"
    /\ out = <<>>
    /\ deg_out = 0
    /\ v_deg = <<0, 0>>
    /\ a_forward = <<>>
    /\ b_forward = <<>>
    /\ mul_cells = <<>>
    /\ writes = <<>>
    /\ writer = <<>>

\* lines 54-71: the degrees, the Constants of the caller, the two forward
\* transforms and the zeroed vector `mul`
MulEnter ==
    /\ pc = "idle"
    /\ op' = "mul"
    /\ LET n == next_power_of_two(len(self) + len(rhs))
           k == working_modulus(n, test_bound(self, rhs, n))
           d1 == degree(self)
           d2 == degree(rhs)
       IN /\ c' = k
          /\ IF d1.ok /\ d2.ok
             THEN /\ pc' = "pointwise"
                  /\ v_deg' = <<d1.val, d2.val>>
                  /\ a_forward' = forward(padded(self, n), k)
                  /\ b_forward' = forward(padded(rhs, n), k)
                  /\ mul_cells' = Zeros(n)
                  /\ writes' = Zeros(n)
                  /\ writer' = Zeros(n)
                  /\ UNCHANGED outcome
             ELSE /\ pc' = "done"
                  /\ outcome' = "panic"
                  /\ UNCHANGED parVars
    /\ UNCHANGED <<self, rhs, out, deg_out>>

\* a cell of `mul` no task has run on yet
unclaimed(w, i) == w[i + 1] = 0

\* for_each returns: every cell's task has run
join_ready(w) == \A i \in 1..Len(w) : w[i] >= 1

\* lines 72-74: worker t runs the task of cell i
MulWrite ==
    /\ pc = "pointwise"
    /\ \E t \in 1..MaxWorkers : \E i \in 0..(Len(mul_cells) - 1) :
           /\ unclaimed(writes, i)
           /\ mul_cells' = [mul_cells EXCEPT
                               ![i + 1] = pointwise_cell(a_forward, b_forward, i, c.N)]
           /\ writes' = [writes EXCEPT ![i + 1] = @ + 1]
           /\ writer' = [writer EXCEPT ![i + 1] = t]
    /\ UNCHANGED <<pc, op, self, rhs, c, outcome, out, deg_out,
                   v_deg, a_forward, b_forward>>

\* lines 76-81: after the join, the inverse transform and the slice
MulJoin ==
    /\ pc = "pointwise"
    /\ join_ready(writes)
    /\ pc' = "done"
    /\ LET res == mul_finish(mul_cells, c, v_deg[1], v_deg[2])
       IN /\ outcome' = IF res.ok THEN "ok" ELSE "panic"
          /\ out' = res.val
    /\ UNCHANGED <<op, self, rhs, c, deg_out>>
    /\ UNCHANGED parVars

NextPar ==
    \/ MulEnter
    \/ MulWrite
    \/ MulJoin

SpecPar == InitPar /\ [][NextPar]_vars

\* ------------------------------------------------------------ properties
\* Reading a coefficient list as a polynomial, most significant first: the
\* coefficient of degree d (0 beyond the list).
CoefAt(p, d) == IF d >= 0 /\ d < Len(p) THEN p[Len(p) - d] ELSE 0
IsNonzero(p) == \E i \in 1..Len(p) : p[i] # 0
\* the degree of a nonzero polynomial
DegOf(p) ==
    CHOOSE d \in 0..(Len(p) - 1) :
        CoefAt(p, d) # 0 /\ \A e \in (d + 1)..(Len(p) - 1) : CoefAt(p, e) = 0
\* the coefficient of degree k of the exact product a * b
ProductCoef(a, b, k) ==
    SumTo([p1 \in 1..(k + 1) |-> CoefAt(a, p1 - 1) * CoefAt(b, k - (p1 - 1))], k + 1)
\* the coefficient of degree e of the formal derivative of p
DerivCoef(p, e) == (e + 1) * CoefAt(p, e + 1)
DerivNonzero(p) == \E e \in 0..(Len(p) - 2) : DerivCoef(p, e) # 0
IsPowerOfTwo(n) == \E e \in 0..n : 2 ^ e = n

MulReturned == pc = "done" /\ op = "mul" /\ IsNonzero(self) /\ IsNonzero(rhs)
\* the Constants satisfy the contract of mul: N > (max |coefficient|)^2 * n
LargeModulus == c.N > contract_bound(self, rhs, c.n)

\* C1: with a large enough modulus, mul returns the very coefficient
\* sequence mul_brute returns for the same operands.
C1_MulEqualsMulBrute ==
    (MulReturned /\ LargeModulus) =>
        (outcome = "ok" /\ out = mul_brute(self, rhs))

\* C2: with a large enough modulus, mul returns the degree(a) + degree(b) + 1
\* coefficients of the exact integer product, leading term first, also for
\* negative coefficients.
C2_MulExactProduct ==
    (MulReturned /\ LargeModulus) =>
        /\ outcome = "ok"
        /\ Len(out) = DegOf(self) + DegOf(rhs) + 1
        /\ \A k \in 0..(DegOf(self) + DegOf(rhs)) :
               CoefAt(out, k) = ProductCoef(self, rhs, k)

\* What mul does deliver under that modulus: the canonical residues modulo N
\* of the coefficients of the exact product (the product itself when no
\* coefficient of it is negative).
MulResiduesOfProduct ==
    (MulReturned /\ LargeModulus) =>
        /\ outcome = "ok"
        /\ Len(out) = DegOf(self) + DegOf(rhs) + 1
        /\ \A k \in 0..(DegOf(self) + DegOf(rhs)) :
               CoefAt(out, k) = ProductCoef(self, rhs, k) % c.N

\* C3: the output of mul_brute, read most significant first, is the product:
\* its coefficient of every degree k is the sum of a_p * b_q over p + q = k.
C3_MulBruteIsProduct ==
    (pc = "done" /\ op = "mul_brute") =>
        \A k \in 0..(Len(self) + Len(rhs)) :
            CoefAt(out, k) = ProductCoef(self, rhs, k)

\* C4: add returns max(len a, len b) coefficients, and counted from the
\* low-degree end its k-th coefficient is a_k + b_k, a missing one being 0.
C4_AddRightAligned ==
    (pc = "done" /\ op = "add") =>
        /\ outcome = "ok"
        /\ Len(out) = Max(Len(self), Len(rhs))
        /\ \A k \in 0..(Len(out) - 1) :
               CoefAt(out, k) = CoefAt(self, k) + CoefAt(rhs, k)

C4_Witness ==
    /\ pc = "done" /\ op = "add"
    /\ self = <<1, 2, 3, 4>> /\ rhs = <<1, 2>> /\ out = <<1, 2, 4, 6>>

\* C5: for every coefficient list, the empty one included, new returns a
\* list of length next_power_of_two(len), a power of two, that is the input
\* behind zeros only, and new of the result is the result.
C5_NewPowerOfTwo ==
    (pc = "done" /\ op = "new") =>
        /\ outcome = "ok"
        /\ IsPowerOfTwo(Len(out))
        /\ Len(out) = next_power_of_two(Len(self))
        /\ Len(out) >= Len(self)
        /\ \A k \in 0..(Len(out) - 1) : CoefAt(out, k) = CoefAt(self, k)
        /\ \A w \in BOOLEAN : new(out, w) = Ok(out)

\* C6: when the formal derivative of p is not zero, diff returns its
\* coefficients, most significant first, starting with a nonzero one.
C6_DiffIsDerivative ==
    (pc = "done" /\ op = "diff" /\ Len(self) > 0 /\ DerivNonzero(self)) =>
        /\ outcome = "ok"
        /\ Len(out) >= 1
        /\ out[1] # 0
        /\ \A e \in 0..(Len(self) - 1) : CoefAt(out, e) = DerivCoef(self, e)

C6_Witness ==
    /\ pc = "done" /\ op = "diff"
    /\ self = <<0, 3, 2, 1>> /\ outcome = "ok" /\ out = <<6, 2>>

\* C7: degree returns a value for every polynomial, the all-zero ones
\* included, and length - (index of the first nonzero) - 1 for the others.
C7_DegreeTotal ==
    (pc = "done" /\ op = "degree" /\ Len(self) > 0) =>
        /\ outcome = "ok"
        /\ IsNonzero(self) => deg_out = DegOf(self)

\* C8: when the modulus is not larger than the largest magnitude of a
\* coefficient of the true product, mul still returns degree(a) + degree(b)
\* + 1 coefficients.
SmallModulus ==
    \E k \in 0..(Len(self) + Len(rhs)) : c.N <= Abs(ProductCoef(self, rhs, k))

C8_SmallModulusStillReturns ==
    (MulReturned /\ SmallModulus) =>
        (outcome = "ok" /\ Len(out) = DegOf(self) + DegOf(rhs) + 1)

\* C9: in the pointwise step every cell is written at most once, by one
\* worker, with (a_forward[i] * b_forward[i]) mod N; a step writes no other
\* cell and leaves the transformed inputs and the constants alone; and mul
\* goes on to the inverse transform only with every cell written once.
CellsState ==
    \A i \in 1..Len(mul_cells) :
        /\ writes[i] \in {0, 1}
        /\ writes[i] = 1 =>
               /\ mul_cells[i] = (a_forward[i] * b_forward[i]) % c.N
               /\ writer[i] \in 1..MaxWorkers
        /\ writes[i] = 0 => (mul_cells[i] = 0 /\ writer[i] = 0)

PointwiseStep ==
    pc = "pointwise" =>
        /\ <<a_forward, b_forward, c, v_deg>>' = <<a_forward, b_forward, c, v_deg>>
        /\ pc' = "pointwise" =>
               \E i \in 1..Len(mul_cells) :
                   /\ writes[i] = 0 /\ writes'[i] = 1
                   /\ \A j \in (1..Len(mul_cells)) \ {i} :
                          /\ mul_cells'[j] = mul_cells[j]
                          /\ writes'[j] = writes[j]
                          /\ writer'[j] = writer[j]
        /\ pc' = "done" =>
               /\ \A i \in 1..Len(mul_cells) : writes[i] = 1
               /\ mul_cells' = mul_cells

C9_PointwiseStep ==
    /\ [](pc \in {"pointwise", "done"} => CellsState)
    /\ [](pc = "done" /\ outcome = "ok" =>
              \A i \in 1..Len(mul_cells) :
                  writes[i] = 1
                  /\ mul_cells[i] = (a_forward[i] * b_forward[i]) % c.N)
    /\ [][PointwiseStep]_vars

C9_Witness ==
    /\ pc = "done" /\ outcome = "ok" /\ Len(mul_cells) = 4
    /\ \E i, j \in 1..4 : writer[i] = 1 /\ writer[j] = 2

\* C10: diff of a non-empty polynomial whose formal derivative is zero
\* returns nothing: the search for the first nonzero coefficient fails.
C10_DiffOfConstantPanics ==
    (pc = "done" /\ op = "diff" /\ Len(self) > 0 /\ ~DerivNonzero(self)) =>
        outcome = "panic"

C10_Witness ==
    /\ pc = "done" /\ op = "diff"
    /\ self = <<0, 0, 0, 3>> /\ outcome = "panic"

====
